---------------------------- MODULE Spec2Model ----------------------------
(***************************************************************************)
(* A model of the watchman client PDU layer                                *)
(* (watchman/rust/watchman_client/src/pdu.rs): the scalar codecs           *)
(* (FileType, ContentSha1Hex), the clock model (ClockSpec, Clock),         *)
(* SyncTimeout / SettleDurationMs and the serialized shape of the request  *)
(* parameter structs.                                                      *)
(*                                                                         *)
(* The layer is pure data-in/data-out.  The state records the last         *)
(* conversion performed: its name (op), its input (arg) and its result     *)
(* (res).  Every action draws an input from a bounded set and applies one  *)
(* conversion of the source to it.                                         *)
(*                                                                         *)
(* Wire values are the values of the self-describing format (BSER):        *)
(* null, booleans, signed 64-bit integers, strings, arrays and             *)
(* string-keyed objects.                                                   *)
(***************************************************************************)
EXTENDS Integers, Sequences, FiniteSets, TLC

VARIABLES op, arg, res

vars == <<op, arg, res>>

----------------------------------------------------------------------------
(* Bounds of the model.                                                    *)

\* longest array drawn as a wire value
MaxSeqLen == 2

----------------------------------------------------------------------------
(* Wire values (serde_bser::value::Value).  An integer is an i64, held as  *)
(* described below.  Every kind keeps its payload under a field of its     *)
(* own, so that values of different kinds can sit in one set.              *)

Null == [kind |-> "null"]

Bool(b) == [kind |-> "bool", bool |-> b]

Integer(i) == [kind |-> "int", int |-> i]

Utf8String(s) == [kind |-> "string", str |-> s]

Array(s) == [kind |-> "array", items |-> s]

Object(f) == [kind |-> "object", map |-> f]

----------------------------------------------------------------------------
(* Machine integers.  TLC's integers are 32 bits wide, so a 64-bit or a    *)
(* 128-bit integer is a little-endian tuple of 16-bit limbs: u64 and i64   *)
(* have 4 limbs, u128 has 8.  An i64 is its two's complement bit pattern.  *)

Base == 2 ^ 16

\* the k low limbs of a natural number n
RECURSIVE Limbs(_, _)
Limbs(n, k) == IF k = 0 THEN <<>> ELSE <<n % Base>> \o Limbs(n \div Base, k - 1)

\* k zero limbs
Zeros(k) == [i \in 1 .. k |-> 0]

\* a small natural number as a u64
U64(n) == Limbs(n, 4)

\* a small integer as an i64 (two's complement)
I64(n) == IF n >= 0
          THEN Limbs(n, 4)
          ELSE [i \in 1 .. 4 |-> (Base - 1) - Limbs((-n) - 1, 4)[i]]

\* limbs * m + c, limb by limb with carry, as Len(limbs) + extra limbs
RECURSIVE MulAdd(_, _, _, _)
MulAdd(limbs, m, c, extra) ==
    IF limbs = <<>>
    THEN Limbs(c, extra)
    ELSE LET t == Head(limbs) * m + c
         IN  <<t % Base>> \o MulAdd(Tail(limbs), m, t \div Base, extra)

\* `x as i64` for a u128 x: the low 64 bits, reinterpreted as signed
AsI64(x) == SubSeq(x, 1, 4)

\* the sign of an i64
I64IsNegative(x) == x[4] >= Base \div 2

\* the i64 x and the u128 n denote the same mathematical integer
I64EqualsU128(x, n) == ~I64IsNegative(x) /\ n = x \o Zeros(4)

----------------------------------------------------------------------------
(* Results and options.                                                    *)

Ok(v) == [tag |-> "Ok", val |-> v]

\* a decode failure reported to the caller
Err == [tag |-> "Err"]

\* a panic!: unwinds out of the decoder, no value is returned
Panic == [tag |-> "Panic"]

None == [some |-> FALSE]

Some(v) == [some |-> TRUE, val |-> v]

----------------------------------------------------------------------------
(* FileType                                                                *)

FileTypes == {"BlockSpecial", "CharSpecial", "Directory", "Regular", "Fifo",
              "Symlink", "Socket", "SolarisDoor", "Unknown"}

\* a decoder that folds case before matching
FileTypeFromStringFoldCase(s) ==
    CASE s \in {"b", "B"} -> Ok("BlockSpecial")
      [] s \in {"c", "C"} -> Ok("CharSpecial")
      [] s \in {"d", "D"} -> Ok("Directory")
      [] s \in {"f", "F"} -> Ok("Regular")
      [] s \in {"p", "P"} -> Ok("Fifo")
      [] s \in {"l", "L"} -> Ok("Symlink")
      [] s \in {"s", "S"} -> Ok("Socket")
      [] s = "?" -> Ok("Unknown")
      [] OTHER -> Panic

\* impl From<String> for FileType
FileTypeFromString(s) ==
    CASE s = "b" -> Ok("BlockSpecial")
      [] s = "c" -> Ok("CharSpecial")
      [] s = "d" -> Ok("Directory")
      [] s = "f" -> Ok("Regular")
      [] s = "p" -> Ok("Fifo")
      [] s = "l" -> Ok("Symlink")
      [] s = "s" -> Ok("Socket")
      [] s = "D" -> Ok("SolarisDoor")
      [] s = "?" -> Ok("Unknown")
      [] OTHER -> Panic

\* impl From<FileType> for String
StringFromFileType(val) ==
    CASE val = "BlockSpecial" -> "b"
      [] val = "CharSpecial" -> "c"
      [] val = "Directory" -> "d"
      [] val = "Regular" -> "f"
      [] val = "Fifo" -> "p"
      [] val = "Symlink" -> "l"
      [] val = "Socket" -> "s"
      [] val = "SolarisDoor" -> "D"
      [] val = "Unknown" -> "?"

\* the strings handed to the FileType decoder
FileTypeStrings == {"b", "c", "d", "f", "p", "l", "s", "D", "?",
                    "", "x", "B", "F", "ff", "dir", " ", "d "}

KnownFileTypeCodes == {"b", "c", "d", "f", "p", "l", "s", "D", "?"}

----------------------------------------------------------------------------
(* Durations (std::time::Duration: u64 seconds and nanoseconds below 1e9). *)

\* nanoseconds per millisecond
NanosPerMilli == 1000000

\* milliseconds per second
MillisPerSec == 1000

\* Duration::as_millis: secs * 1000 + nanos / 1_000_000, as a u128
as_millis(d) == MulAdd(d.secs, MillisPerSec, d.nanos \div NanosPerMilli, 4)

\* floor((2^63 - 1) / 1000) = 9223372036854775 seconds
SecsAtI64Max == <<21495, 42467, 50331, 32>>

\* floor(2^64 / 1000) = 18446744073709551 seconds
SecsAtU64Wrap == <<42991, 19398, 35127, 65>>

\* u64::MAX seconds
SecsMax == <<Base - 1, Base - 1, Base - 1, Base - 1>>

DurationSecs == {U64(0), U64(1), U64(60), SecsAtI64Max, SecsAtU64Wrap, SecsMax}

DurationNanos == {0, 1, 999999, 1000000, 616000000, 807000000, 808000000,
                  999999999}

Durations == [secs : DurationSecs, nanos : DurationNanos]

----------------------------------------------------------------------------
(* SettleDurationMs and SyncTimeout                                        *)

\* impl From<SettleDurationMs> for i64
I64FromSettleDurationMs(val) == AsI64(as_millis(val))

Default == [tag |-> "Default"]

DisableCookie == [tag |-> "DisableCookie"]

Duration(d) == [tag |-> "Duration", d |-> d]

SyncTimeouts == {Default, DisableCookie} \cup {Duration(d) : d \in Durations}

\* SyncTimeout::is_default
is_default(self) == self.tag = "Default"

\* SyncTimeout::is_disabled
is_disabled(self) == self.tag = "DisableCookie"

\* impl From<std::time::Duration> for SyncTimeout
SyncTimeoutFromDuration(duration) ==
    LET millis == as_millis(duration)
    IN  IF millis = Zeros(Len(millis)) THEN DisableCookie ELSE Duration(duration)

\* the server's default sync timeout, in milliseconds
DefaultSyncTimeoutMs == 60000

\* impl From<SyncTimeout> for i64
I64FromSyncTimeout(val) ==
    CASE val.tag = "Default" -> I64(DefaultSyncTimeoutMs)
      [] val.tag = "DisableCookie" -> I64(0)
      [] val.tag = "Duration" -> AsI64(as_millis(val.d))

----------------------------------------------------------------------------
(* ClockSpec, Clock and the source-control-aware clock data.               *)

StringClock(st) == [tag |-> "StringClock", st |-> st]

UnixTimestamp(ts) == [tag |-> "UnixTimestamp", ts |-> ts]

\* Clock::Spec
ClockOfSpec(c) == [tag |-> "Spec", spec |-> c]

\* Clock::ScmAware
ScmAware(f) == [tag |-> "ScmAware", fat |-> f]

\* impl From<ClockSpec> for Value, and the derived untagged Serialize
ValueFromClockSpec(val) ==
    CASE val.tag = "StringClock" -> Utf8String(val.st)
      [] val.tag = "UnixTimestamp" -> Integer(val.ts)

\* Option<T> with skip_serializing_if = "Option::is_none": the keys present
PresentKeys(all, skipped) == {k \in all : ~skipped[k]}

\* derived Serialize of SavedStateClockData
SerializeSavedStateClockData(s) ==
    LET skipped == [k \in {"storage", "commit-id", "config"} |->
                      CASE k = "storage" -> ~s.storage.some
                        [] k = "commit-id" -> ~s.commit.some
                        [] k = "config" -> ~s.config.some]
    IN  Object([k \in PresentKeys(DOMAIN skipped, skipped) |->
                  CASE k = "storage" -> Utf8String(s.storage.val)
                    [] k = "commit-id" -> Utf8String(s.commit.val)
                    [] k = "config" -> s.config.val])

\* derived Serialize of ScmAwareClockData
SerializeScmAwareClockData(s) ==
    LET skipped == [k \in {"mergebase", "mergebase-with", "saved-state"} |->
                      CASE k = "mergebase" -> ~s.mergebase.some
                        [] k = "mergebase-with" -> ~s.mergebase_with.some
                        [] k = "saved-state" -> ~s.saved_state.some]
    IN  Object([k \in PresentKeys(DOMAIN skipped, skipped) |->
                  CASE k = "mergebase" -> Utf8String(s.mergebase.val)
                    [] k = "mergebase-with" -> Utf8String(s.mergebase_with.val)
                    [] k = "saved-state" ->
                           SerializeSavedStateClockData(s.saved_state.val)])

\* derived Serialize of FatClockData
SerializeFatClockData(f) ==
    LET skipped == [k \in {"clock", "scm"} |->
                      CASE k = "clock" -> FALSE
                        [] k = "scm" -> ~f.scm.some]
    IN  Object([k \in PresentKeys(DOMAIN skipped, skipped) |->
                  CASE k = "clock" -> ValueFromClockSpec(f.clock)
                    [] k = "scm" -> SerializeScmAwareClockData(f.scm.val)])

\* derived untagged Serialize of Clock
SerializeClock(c) ==
    CASE c.tag = "Spec" -> ValueFromClockSpec(c.spec)
      [] c.tag = "ScmAware" -> SerializeFatClockData(c.fat)

----------------------------------------------------------------------------
(* Decoding, as the derived Deserialize implementations do it.             *)
(*                                                                         *)
(* A derived struct decodes from an object: unknown keys are ignored, a    *)
(* missing Option field is None and any other missing field is a failure.  *)
(* It also decodes from an array that holds exactly its fields, in         *)
(* declaration order (the derived visitor has a visit_seq, and an array    *)
(* on the wire is handed to it); a shorter or longer array is a failure.   *)
(* A struct variant of an untagged enum (ContentSha1Hex::Error) gets no    *)
(* visit_seq and decodes from an object only.                              *)
(*                                                                         *)
(* An untagged enum buffers the value, tries its variants in declaration   *)
(* order and fails when none matches.                                      *)

IsOk(r) == r.tag = "Ok"

\* String
DeserializeString(v) == IF v.kind = "string" THEN Ok(v.str) ELSE Err

\* i64
DeserializeI64(v) == IF v.kind = "int" THEN Ok(v.int) ELSE Err

\* Option<T>: null is None, anything else must decode as T; r is the
\* result of decoding v as T
DeserializeOption(v, r) ==
    IF v.kind = "null"
    THEN Ok(None)
    ELSE IF IsOk(r) THEN Ok(Some(r.val)) ELSE Err

\* serde_bser::value::Value: every wire value decodes as itself
DeserializeValue(v) == Ok(v)

\* The fields of a struct as found in v: Err when v has no struct shape,
\* otherwise for each key Some(value) or None (absent).  keys is the tuple
\* of the struct's wire names in declaration order.
StructFields(v, keys) ==
    LET names == {keys[i] : i \in 1 .. Len(keys)}
    IN  CASE v.kind = "object" ->
                 Ok([k \in names |->
                       IF k \in DOMAIN v.map THEN Some(v.map[k]) ELSE None])
          [] v.kind = "array" ->
                 IF Len(v.items) = Len(keys)
                 THEN Ok([k \in names |->
                            Some(v.items[CHOOSE i \in 1 .. Len(keys) : keys[i] = k])])
                 ELSE Err
          [] OTHER -> Err

\* a field of type Option<T>: absent is None; r is the result of decoding
\* the field's value as T
OptionField(f, r) == IF f.some THEN DeserializeOption(f.val, r) ELSE Ok(None)

\* a field of any other type: absent is a failure; r is the result of
\* decoding the field's value
RequiredField(f, r) == IF f.some THEN r ELSE Err

\* a decoder that tries the integer shape first and parses digit strings
DeserializeClockSpecParsing(v) ==
    CASE v.kind = "int" -> Ok(UnixTimestamp(v.int))
      [] v.kind = "string" ->
             IF v.str = "123" THEN Ok(UnixTimestamp(I64(123)))
                              ELSE Ok(StringClock(v.str))
      [] OTHER -> Err

\* derived untagged Deserialize of ClockSpec
DeserializeClockSpec(v) ==
    CASE IsOk(DeserializeString(v)) -> Ok(StringClock(DeserializeString(v).val))
      [] ~IsOk(DeserializeString(v)) /\ IsOk(DeserializeI64(v)) ->
             Ok(UnixTimestamp(DeserializeI64(v).val))
      [] OTHER -> Err

\* derived Deserialize of SavedStateClockData
DeserializeSavedStateClockData(v) ==
    LET fs == StructFields(v, <<"storage", "commit-id", "config">>)
    IN  IF ~IsOk(fs) THEN Err
        ELSE LET f == fs.val
                 storage == OptionField(f["storage"],
                                        DeserializeString(f["storage"].val))
                 commit == OptionField(f["commit-id"],
                                       DeserializeString(f["commit-id"].val))
                 config == OptionField(f["config"],
                                       DeserializeValue(f["config"].val))
             IN  IF IsOk(storage) /\ IsOk(commit) /\ IsOk(config)
                 THEN Ok([storage |-> storage.val, commit |-> commit.val,
                          config |-> config.val])
                 ELSE Err

\* derived Deserialize of ScmAwareClockData
DeserializeScmAwareClockData(v) ==
    LET fs == StructFields(v, <<"mergebase", "mergebase-with", "saved-state">>)
    IN  IF ~IsOk(fs) THEN Err
        ELSE LET f == fs.val
                 mergebase == OptionField(f["mergebase"],
                                          DeserializeString(f["mergebase"].val))
                 mergebase_with ==
                     OptionField(f["mergebase-with"],
                                 DeserializeString(f["mergebase-with"].val))
                 saved_state ==
                     OptionField(f["saved-state"],
                                 DeserializeSavedStateClockData(f["saved-state"].val))
             IN  IF IsOk(mergebase) /\ IsOk(mergebase_with) /\ IsOk(saved_state)
                 THEN Ok([mergebase |-> mergebase.val,
                          mergebase_with |-> mergebase_with.val,
                          saved_state |-> saved_state.val])
                 ELSE Err

\* derived Deserialize of FatClockData
DeserializeFatClockData(v) ==
    LET fs == StructFields(v, <<"clock", "scm">>)
    IN  IF ~IsOk(fs) THEN Err
        ELSE LET f == fs.val
                 clock == RequiredField(f["clock"],
                                        DeserializeClockSpec(f["clock"].val))
                 scm == OptionField(f["scm"],
                                    DeserializeScmAwareClockData(f["scm"].val))
             IN  IF IsOk(clock) /\ IsOk(scm)
                 THEN Ok([clock |-> clock.val, scm |-> scm.val])
                 ELSE Err

\* a decoder that wraps every plain spec into the source-control-aware shape
DeserializeClockAlwaysFat(v) ==
    CASE IsOk(DeserializeClockSpec(v)) ->
             Ok(ScmAware([clock |-> DeserializeClockSpec(v).val, scm |-> None]))
      [] ~IsOk(DeserializeClockSpec(v)) /\ IsOk(DeserializeFatClockData(v)) ->
             Ok(ScmAware(DeserializeFatClockData(v).val))
      [] OTHER -> Err

\* derived untagged Deserialize of Clock
DeserializeClock(v) ==
    CASE IsOk(DeserializeClockSpec(v)) -> Ok(ClockOfSpec(DeserializeClockSpec(v).val))
      [] ~IsOk(DeserializeClockSpec(v)) /\ IsOk(DeserializeFatClockData(v)) ->
             Ok(ScmAware(DeserializeFatClockData(v).val))
      [] OTHER -> Err

----------------------------------------------------------------------------
(* ContentSha1Hex                                                          *)

Hash(s) == [tag |-> "Hash", hash |-> s]

Error(s) == [tag |-> "Error", error |-> s]

ContentNone == [tag |-> "None"]

\* a decoder that lets unmatched shapes fall through to the None variant
DeserializeContentSha1HexLenient(v) ==
    CASE v.kind = "string" -> Ok(Hash(v.str))
      [] v.kind = "object" /\ "error" \in DOMAIN v.map
           /\ v.map["error"].kind = "string" -> Ok(Error(v.map["error"].str))
      [] OTHER -> Ok(ContentNone)

\* derived untagged Deserialize of ContentSha1Hex.  Error is a struct
\* variant: it decodes from an object only.  None is a unit variant: it
\* decodes from null only.
DeserializeContentSha1Hex(v) ==
    LET hash == DeserializeString(v)
        f == StructFields(v, <<"error">>).val
        error == IF v.kind = "object"
                 THEN RequiredField(f["error"], DeserializeString(f["error"].val))
                 ELSE Err
    IN  CASE IsOk(hash) -> Ok(Hash(hash.val))
          [] ~IsOk(hash) /\ IsOk(error) -> Ok(Error(error.val))
          [] ~IsOk(hash) /\ ~IsOk(error) /\ v.kind = "null" -> Ok(ContentNone)
          [] OTHER -> Err

----------------------------------------------------------------------------
(* Request parameter structs                                               *)

\* derived Serialize of ClockRequestParams
SerializeClockRequestParams(p) ==
    LET skipped == [k \in {"sync_timeout"} |-> is_disabled(p.sync_timeout)]
    IN  Object([k \in PresentKeys(DOMAIN skipped, skipped) |->
                  Integer(I64FromSyncTimeout(p.sync_timeout))])

\* an encoder that applies the rule of ClockRequestParams to the key
SerializeStateEnterLeaveParamsAsClock(p) ==
    LET skipped == [k \in {"name", "metadata", "sync_timeout"} |->
                      CASE k = "name" -> FALSE
                        [] k = "metadata" -> ~p.metadata.some
                        [] k = "sync_timeout" -> is_disabled(p.sync_timeout)]
    IN  Object([k \in PresentKeys(DOMAIN skipped, skipped) |->
                  CASE k = "name" -> Utf8String(p.name)
                    [] k = "metadata" -> p.metadata.val
                    [] k = "sync_timeout" ->
                           Integer(I64FromSyncTimeout(p.sync_timeout))])

\* derived Serialize of StateEnterLeaveParams
SerializeStateEnterLeaveParams(p) ==
    LET skipped == [k \in {"name", "metadata", "sync_timeout"} |->
                      CASE k = "name" -> FALSE
                        [] k = "metadata" -> ~p.metadata.some
                        [] k = "sync_timeout" -> is_default(p.sync_timeout)]
    IN  Object([k \in PresentKeys(DOMAIN skipped, skipped) |->
                  CASE k = "name" -> Utf8String(p.name)
                    [] k = "metadata" -> p.metadata.val
                    [] k = "sync_timeout" ->
                           Integer(I64FromSyncTimeout(p.sync_timeout))])

\* a skip predicate that never skips
is_false_never(v) == FALSE

\* is_false
is_false(v) == ~v

\* derived untagged Serialize of PathGeneratorElement
SerializePathGeneratorElement(e) ==
    CASE e.tag = "RecursivePath" -> Utf8String(e.path)
      [] e.tag = "ConstrainedDepth" ->
             Object([k \in {"path", "depth"} |->
                       CASE k = "path" -> Utf8String(e.path)
                         [] k = "depth" -> Integer(e.depth)])

\* a Vec<String>, Vec<&str> or Vec<PathBuf> as an array of strings
SerializeStrings(names) == Array([i \in 1 .. Len(names) |-> Utf8String(names[i])])

QueryRequestCommonKeys ==
    {"glob", "glob_noescape", "glob_includedotfiles", "path", "suffix", "since",
     "relative_root", "expression", "fields", "empty_on_fresh_instance",
     "omit_changed_files", "fail_if_no_saved_state", "case_sensitive",
     "sync_timeout", "settle_period", "settle_timeout", "dedup_results",
     "lock_timeout", "request_id", "always_include_directories"}

\* derived Serialize of QueryRequestCommon.  expression holds the value its
\* Expr serializes to (crate::expr).
SerializeQueryRequestCommon(q) ==
    LET skipped == [k \in QueryRequestCommonKeys |->
          CASE k = "glob" -> ~q.glob.some
            [] k = "glob_noescape" -> is_false(q.glob_noescape)
            [] k = "glob_includedotfiles" -> is_false(q.glob_includedotfiles)
            [] k = "path" -> ~q.path.some
            [] k = "suffix" -> ~q.suffix.some
            [] k = "since" -> ~q.since.some
            [] k = "relative_root" -> ~q.relative_root.some
            [] k = "expression" -> ~q.expression.some
            [] k = "fields" -> FALSE
            [] k = "empty_on_fresh_instance" -> is_false(q.empty_on_fresh_instance)
            [] k = "omit_changed_files" -> is_false(q.omit_changed_files)
            [] k = "fail_if_no_saved_state" -> is_false(q.fail_if_no_saved_state)
            [] k = "case_sensitive" -> is_false(q.case_sensitive)
            [] k = "sync_timeout" -> is_default(q.sync_timeout)
            [] k = "settle_period" -> ~q.settle_period.some
            [] k = "settle_timeout" -> ~q.settle_timeout.some
            [] k = "dedup_results" -> is_false(q.dedup_results)
            [] k = "lock_timeout" -> ~q.lock_timeout.some
            [] k = "request_id" -> ~q.request_id.some
            [] k = "always_include_directories" ->
                   is_false(q.always_include_directories)]
    IN  Object([k \in PresentKeys(QueryRequestCommonKeys, skipped) |->
          CASE k = "glob" -> SerializeStrings(q.glob.val)
            [] k = "glob_noescape" -> Bool(q.glob_noescape)
            [] k = "glob_includedotfiles" -> Bool(q.glob_includedotfiles)
            [] k = "path" ->
                   Array([i \in 1 .. Len(q.path.val) |->
                            SerializePathGeneratorElement(q.path.val[i])])
            [] k = "suffix" -> SerializeStrings(q.suffix.val)
            [] k = "since" -> SerializeClock(q.since.val)
            [] k = "relative_root" -> Utf8String(q.relative_root.val)
            [] k = "expression" -> q.expression.val
            [] k = "fields" -> SerializeStrings(q.fields)
            [] k = "empty_on_fresh_instance" -> Bool(q.empty_on_fresh_instance)
            [] k = "omit_changed_files" -> Bool(q.omit_changed_files)
            [] k = "fail_if_no_saved_state" -> Bool(q.fail_if_no_saved_state)
            [] k = "case_sensitive" -> Bool(q.case_sensitive)
            [] k = "sync_timeout" -> Integer(I64FromSyncTimeout(q.sync_timeout))
            [] k = "settle_period" ->
                   Integer(I64FromSettleDurationMs(q.settle_period.val))
            [] k = "settle_timeout" ->
                   Integer(I64FromSettleDurationMs(q.settle_timeout.val))
            [] k = "dedup_results" -> Bool(q.dedup_results)
            [] k = "lock_timeout" -> Integer(q.lock_timeout.val)
            [] k = "request_id" -> Utf8String(q.request_id.val)
            [] k = "always_include_directories" ->
                   Bool(q.always_include_directories)])

\* derived Default of QueryRequestCommon
QueryRequestCommonDefault ==
    [glob |-> None, glob_noescape |-> FALSE, glob_includedotfiles |-> FALSE,
     path |-> None, suffix |-> None, since |-> None, relative_root |-> None,
     expression |-> None, fields |-> <<>>, empty_on_fresh_instance |-> FALSE,
     omit_changed_files |-> FALSE, fail_if_no_saved_state |-> FALSE,
     case_sensitive |-> FALSE, sync_timeout |-> Default, settle_period |-> None,
     settle_timeout |-> None, dedup_results |-> FALSE, lock_timeout |-> None,
     request_id |-> None, always_include_directories |-> FALSE]

SubscribeRequestKeys ==
    {"since", "relative_root", "expression", "fields",
     "empty_on_fresh_instance", "case_sensitive", "defer_vcs", "defer", "drop"}

\* the skip rules of a request whose fields list is skipped when empty, as
\* its defer and drop lists are
SubscribeRequestSkippedEmptyFields(r) ==
    [k \in SubscribeRequestKeys |->
       CASE k = "since" -> ~r.since.some
         [] k = "relative_root" -> ~r.relative_root.some
         [] k = "expression" -> ~r.expression.some
         [] k = "fields" -> r.fields = <<>>
         [] k = "empty_on_fresh_instance" -> is_false(r.empty_on_fresh_instance)
         [] k = "case_sensitive" -> is_false(r.case_sensitive)
         [] k = "defer_vcs" -> is_false(r.defer_vcs)
         [] k = "defer" -> r.defer = <<>>
         [] k = "drop" -> r.drop = <<>>]

\* the skip_serializing_if attributes of SubscribeRequest
SubscribeRequestSkipped(r) ==
    [k \in SubscribeRequestKeys |->
       CASE k = "since" -> ~r.since.some
         [] k = "relative_root" -> ~r.relative_root.some
         [] k = "expression" -> ~r.expression.some
         [] k = "fields" -> FALSE
         [] k = "empty_on_fresh_instance" -> is_false(r.empty_on_fresh_instance)
         [] k = "case_sensitive" -> is_false(r.case_sensitive)
         [] k = "defer_vcs" -> is_false(r.defer_vcs)
         [] k = "defer" -> r.defer = <<>>
         [] k = "drop" -> r.drop = <<>>]

\* derived Serialize of SubscribeRequest.  expression holds the value its
\* Expr serializes to (crate::expr).
SerializeSubscribeRequest(r) ==
    Object([k \in PresentKeys(SubscribeRequestKeys, SubscribeRequestSkipped(r)) |->
      CASE k = "since" -> SerializeClock(r.since.val)
        [] k = "relative_root" -> Utf8String(r.relative_root.val)
        [] k = "expression" -> r.expression.val
        [] k = "fields" -> SerializeStrings(r.fields)
        [] k = "empty_on_fresh_instance" -> Bool(r.empty_on_fresh_instance)
        [] k = "case_sensitive" -> Bool(r.case_sensitive)
        [] k = "defer_vcs" -> Bool(r.defer_vcs)
        [] k = "defer" -> SerializeStrings(r.defer)
        [] k = "drop" -> SerializeStrings(r.drop)])

\* derived Default of SubscribeRequest
SubscribeRequestDefault ==
    [since |-> None, relative_root |-> None, expression |-> None,
     fields |-> <<>>, empty_on_fresh_instance |-> FALSE,
     case_sensitive |-> FALSE, defer_vcs |-> FALSE, defer |-> <<>>,
     drop |-> <<>>]

\* enum TriggerStdinConfig
DevNull == [tag |-> "DevNull"]
FieldNames(names) == [tag |-> "FieldNames", names |-> names]
NamePerLine == [tag |-> "NamePerLine"]

\* a serializer with the two string forms exchanged
SerializeTriggerStdinConfigSwapped(this) ==
    CASE ~this.some -> Null
      [] this.val.tag = "DevNull" -> Utf8String("NAME_PER_LINE")
      [] this.val.tag = "FieldNames" -> SerializeStrings(this.val.names)
      [] this.val.tag = "NamePerLine" -> Utf8String("/dev/null")

\* TriggerStdinConfig::serialize, of an Option<TriggerStdinConfig>
SerializeTriggerStdinConfig(this) ==
    CASE ~this.some -> Null
      [] this.val.tag = "DevNull" -> Utf8String("/dev/null")
      [] this.val.tag = "FieldNames" -> SerializeStrings(this.val.names)
      [] this.val.tag = "NamePerLine" -> Utf8String("NAME_PER_LINE")

TriggerRequestKeys ==
    {"name", "command", "append_files", "expression", "stdin", "stdout",
     "stderr", "max_files_stdin", "chdir", "relative_root"}

\* derived Serialize of TriggerRequest.  expression holds the value its
\* Expr serializes to (crate::expr).
SerializeTriggerRequest(t) ==
    LET skipped == [k \in TriggerRequestKeys |->
          CASE k = "name" -> FALSE
            [] k = "command" -> FALSE
            [] k = "append_files" -> is_false(t.append_files)
            [] k = "expression" -> ~t.expression.some
            [] k = "stdin" -> ~t.stdin.some
            [] k = "stdout" -> ~t.stdout.some
            [] k = "stderr" -> ~t.stderr.some
            [] k = "max_files_stdin" -> ~t.max_files_stdin.some
            [] k = "chdir" -> ~t.chdir.some
            [] k = "relative_root" -> ~t.relative_root.some]
    IN  Object([k \in PresentKeys(TriggerRequestKeys, skipped) |->
          CASE k = "name" -> Utf8String(t.name)
            [] k = "command" -> SerializeStrings(t.command)
            [] k = "append_files" -> Bool(t.append_files)
            [] k = "expression" -> t.expression.val
            [] k = "stdin" -> SerializeTriggerStdinConfig(t.stdin)
            [] k = "stdout" -> Utf8String(t.stdout.val)
            [] k = "stderr" -> Utf8String(t.stderr.val)
            [] k = "max_files_stdin" -> Integer(t.max_files_stdin.val)
            [] k = "chdir" -> Utf8String(t.chdir.val)
            [] k = "relative_root" -> Utf8String(t.relative_root.val)])

----------------------------------------------------------------------------
(* The responses.  Every response type is a struct with a derived          *)
(* Deserialize, given here by its fields in declaration order: the Rust    *)
(* name, the wire key, the type and the serde attributes that bear on      *)
(* decoding.  The derived code accepts a map (keys in any order, unknown   *)
(* keys skipped: no struct of the file carries deny_unknown_fields) and a  *)
(* sequence holding the fields in declaration order.                       *)

StringType == [t |-> "String"]
PathBufType == [t |-> "PathBuf"]
BoolType == [t |-> "bool"]
U64Type == [t |-> "u64"]
ValueType == [t |-> "Value"]
ClockSpecType == [t |-> "ClockSpec"]
ClockType == [t |-> "Clock"]
ExprType == [t |-> "Expr"]
TriggerStdinConfigType == [t |-> "TriggerStdinConfig"]
OptionOf(T) == [t |-> "Option", of |-> T]
VecOf(T) == [t |-> "Vec", of |-> T]
StructOf(fields) == [t |-> "struct", fields |-> fields]

\* a field without attributes, and the attributes rename, default and
\* skip_deserializing (d is the Default::default() of the field's type)
Field(name, ty) ==
    [name |-> name, key |-> name, ty |-> ty, default |-> None,
     skip_deserializing |-> FALSE]
Renamed(f, key) == [f EXCEPT !.key = key]
WithDefault(f, d) == [f EXCEPT !.default = Some(d)]
SkipDeserializing(f, d) ==
    [f EXCEPT !.default = Some(d), !.skip_deserializing = TRUE]

\* the wire keys a struct reads
KeysOf(T) ==
    {T.fields[i].key : i \in {j \in 1 .. Len(T.fields) :
                                 ~T.fields[j].skip_deserializing}}

\* a container that rejects the keys it does not know
deny_unknown_fields_set == TRUE

\* the container attribute deny_unknown_fields: no struct carries it
deny_unknown_fields == FALSE

\* bool
DeserializeBool(v) == IF v.kind = "bool" THEN Ok(v.bool) ELSE Err

\* u64
DeserializeU64(v) ==
    IF v.kind = "int" /\ ~I64IsNegative(v.int) THEN Ok(v.int) ELSE Err

\* a field whose key is absent from the map: its default when it carries
\* the default attribute, None when its type is an Option, else a failure
MissingField(f) ==
    CASE f.default.some -> Ok(f.default.val)
      [] f.ty.t = "Option" -> Ok(None)
      [] OTHER -> Err

\* Deserialize of a value v as the type T
RECURSIVE Deserialize(_, _)
Deserialize(T, v) ==
    CASE T.t = "String" -> DeserializeString(v)
      [] T.t = "PathBuf" -> DeserializeString(v)
      [] T.t = "bool" -> DeserializeBool(v)
      [] T.t = "u64" -> DeserializeU64(v)
      [] T.t = "Value" -> DeserializeValue(v)
      [] T.t = "ClockSpec" -> DeserializeClockSpec(v)
      [] T.t = "Clock" -> DeserializeClock(v)
      [] T.t = "Option" -> DeserializeOption(v, Deserialize(T.of, v))
      [] T.t = "Vec" ->
             IF v.kind # "array" THEN Err
             ELSE LET rs == [i \in 1 .. Len(v.items) |->
                               Deserialize(T.of, v.items[i])]
                  IN  IF \A i \in 1 .. Len(v.items) : IsOk(rs[i])
                      THEN Ok([i \in 1 .. Len(v.items) |-> rs[i].val])
                      ELSE Err
      [] T.t = "struct" ->
             LET fs == T.fields
                 \* the position of field i in a sequence: the skipped
                 \* fields take no element
                 pos(i) == Cardinality({j \in 1 .. i : ~fs[j].skip_deserializing})
                 shaped ==
                     CASE v.kind = "object" ->
                              ~deny_unknown_fields \/ DOMAIN v.map \subseteq KeysOf(T)
                       [] v.kind = "array" -> Len(v.items) <= pos(Len(fs))
                       [] OTHER -> FALSE
                 rs == [i \in 1 .. Len(fs) |->
                          CASE fs[i].skip_deserializing -> Ok(fs[i].default.val)
                            [] v.kind = "object" ->
                                   IF fs[i].key \in DOMAIN v.map
                                   THEN Deserialize(fs[i].ty, v.map[fs[i].key])
                                   ELSE MissingField(fs[i])
                            [] v.kind = "array" ->
                                   IF pos(i) <= Len(v.items)
                                   THEN Deserialize(fs[i].ty, v.items[pos(i)])
                                   ELSE IF fs[i].default.some
                                        THEN Ok(fs[i].default.val)
                                        ELSE Err]
             IN  IF shaped /\ \A i \in 1 .. Len(fs) : IsOk(rs[i])
                 THEN Ok([n \in {fs[i].name : i \in 1 .. Len(fs)} |->
                            rs[CHOOSE i \in 1 .. Len(fs) : fs[i].name = n].val])
                 ELSE Err

GetVersionResponse == StructOf(<<Field("version", StringType)>>)

WatchListResponse == StructOf(<<Field("roots", VecOf(PathBufType))>>)

GetSockNameResponse ==
    StructOf(<<Field("version", StringType),
               Field("sockname", OptionOf(PathBufType)),
               Field("error", OptionOf(StringType))>>)

ClockResponse ==
    StructOf(<<Field("version", StringType), Field("clock", ClockSpecType)>>)

WatchmanConfig ==
    StructOf(<<Field("ignore_dirs", OptionOf(VecOf(PathBufType)))>>)

GetConfigResponse ==
    StructOf(<<Field("version", StringType), Field("config", WatchmanConfig)>>)

StateEnterLeaveResponse == StructOf(<<Field("version", StringType)>>)

WatchProjectResponse ==
    StructOf(<<Field("version", StringType),
               Field("relative_path", OptionOf(PathBufType)),
               Field("watch", PathBufType),
               Field("watcher", StringType)>>)

QueryDebugInfo ==
    StructOf(<<Field("cookie_files", OptionOf(VecOf(PathBufType)))>>)

\* a caller's row type F: the name field alone
NameOnly == StructOf(<<Field("name", PathBufType)>>)

\* QueryResult<F>
QueryResult(F) ==
    StructOf(<<Field("version", StringType),
               WithDefault(Field("is_fresh_instance", BoolType), FALSE),
               Field("files", OptionOf(VecOf(F))),
               Field("clock", ClockType),
               Renamed(Field("state_enter", OptionOf(StringType)), "state-enter"),
               Renamed(Field("state_leave", OptionOf(StringType)), "state-leave"),
               Renamed(Field("state_metadata", OptionOf(ValueType)), "metadata"),
               Renamed(Field("saved_state_info", OptionOf(ValueType)),
                       "saved-state-info"),
               Field("debug", OptionOf(QueryDebugInfo))>>)

\* a subscribe response whose asserted-states has no default
SubscribeResponseWithoutDefault ==
    StructOf(<<Field("version", StringType),
               Field("subscribe", StringType),
               Field("clock", ClockType),
               Renamed(Field("asserted_states", VecOf(StringType)),
                       "asserted-states"),
               Renamed(Field("saved_state_info", OptionOf(ValueType)),
                       "saved-state-info")>>)

SubscribeResponse ==
    StructOf(<<Field("version", StringType),
               Field("subscribe", StringType),
               Field("clock", ClockType),
               Renamed(WithDefault(Field("asserted_states", VecOf(StringType)),
                                   <<>>),
                       "asserted-states"),
               Renamed(Field("saved_state_info", OptionOf(ValueType)),
                       "saved-state-info")>>)

\* a trigger whose stdin is read from the wire, as a string
TriggerRequestReadingStdin ==
    StructOf(<<Field("name", StringType),
               Field("command", VecOf(StringType)),
               WithDefault(Field("append_files", BoolType), FALSE),
               SkipDeserializing(Field("expression", OptionOf(ExprType)), None),
               Field("stdin", OptionOf(StringType)),
               Field("stdout", OptionOf(StringType)),
               Field("stderr", OptionOf(StringType)),
               Field("max_files_stdin", OptionOf(U64Type)),
               Field("chdir", OptionOf(StringType)),
               Field("relative_root", OptionOf(PathBufType))>>)

TriggerRequest ==
    StructOf(<<Field("name", StringType),
               Field("command", VecOf(StringType)),
               WithDefault(Field("append_files", BoolType), FALSE),
               SkipDeserializing(Field("expression", OptionOf(ExprType)), None),
               SkipDeserializing(Field("stdin", OptionOf(TriggerStdinConfigType)),
                                 None),
               Field("stdout", OptionOf(StringType)),
               Field("stderr", OptionOf(StringType)),
               Field("max_files_stdin", OptionOf(U64Type)),
               Field("chdir", OptionOf(StringType)),
               Field("relative_root", OptionOf(PathBufType))>>)

TriggerResponse ==
    StructOf(<<Field("version", StringType),
               Field("disposition", StringType),
               Field("triggerid", StringType)>>)

TriggerDelResponse ==
    StructOf(<<Field("version", StringType),
               Field("deleted", BoolType),
               Field("trigger", StringType)>>)

TriggerListResponse ==
    StructOf(<<Field("version", StringType),
               Field("triggers", VecOf(TriggerRequest))>>)

UnsubscribeResponse ==
    StructOf(<<Field("version", StringType), Field("unsubscribe", StringType)>>)

State == StructOf(<<Field("name", StringType), Field("state", StringType)>>)

GetAssertedStatesResponse ==
    StructOf(<<Field("version", StringType),
               Field("root", StringType),
               Field("states", VecOf(State))>>)

----------------------------------------------------------------------------
(* The inputs drawn by the actions.                                        *)

ClockStrings == {"c:0:0", "c:1700000000:42:1:7", "n:cursor", "123",
                 "{\"clock\":\"c:0:0\"}", "clock"}

ClockSpecs == {StringClock(s) : s \in ClockStrings}
                \cup {UnixTimestamp(I64(n)) : n \in {-1, 0, 123}}

OptionalStrings(S) == {None} \cup {Some(s) : s \in S}

SavedStates == [storage : OptionalStrings({"manifold"}),
                commit : OptionalStrings({"abc123"}),
                config : {None, Some(Null), Some(Utf8String("cfg"))}]

ScmDatas == [mergebase : OptionalStrings({"deadbeef"}),
             mergebase_with : OptionalStrings({"master"}),
             saved_state : {None} \cup {Some(s) : s \in SavedStates}]

FatClocks == [clock : {StringClock("c:0:0"), UnixTimestamp(I64(123))},
              scm : {None} \cup {Some(s) : s \in ScmDatas}]

Clocks == {ClockOfSpec(c) : c \in ClockSpecs} \cup {ScmAware(f) : f \in FatClocks}

\* scalar wire values
Scalars == {Null, Bool(TRUE), Integer(I64(123)), Utf8String("c:0:0"),
            Utf8String("123"), Utf8String("{\"clock\":\"c:0:0\"}")}

\* the values of the ContentSha1Hex tests
Sha1HexSamples ==
    {Utf8String("e820c2c600a36f05ba905cf1bf32c4834e804e22"),
     Object([k \in {"error"} |-> Utf8String("out of cookies")]),
     Integer(I64(-1)), Bool(FALSE)}

\* the arrays of at most n values of S
RECURSIVE ArraysUpTo(_, _)
ArraysUpTo(S, n) ==
    IF n = 0 THEN {<<>>}
    ELSE LET shorter == ArraysUpTo(S, n - 1)
         IN  shorter \cup {Append(a, x) : a \in {b \in shorter : Len(b) = n - 1},
                                            x \in S}

\* a map with the key k set to v, and with the key k removed
WithKey(m, k, v) == [x \in DOMAIN m \cup {k} |-> IF x = k THEN v ELSE m[x]]
WithoutKey(m, k) == [x \in DOMAIN m \ {k} |-> m[x]]

EmptyMap == [k \in {} |-> Null]

WireKeys == {"clock", "error", "scm", "extra"}

\* the wire values handed to the decoders: scalars, arrays and objects of
\* scalars, and the encodings of clocks
WireValues ==
    Scalars
      \cup Sha1HexSamples
      \cup {Array(a) : a \in ArraysUpTo(Scalars, MaxSeqLen)}
      \cup {Object(f) : f \in UNION {[K -> Scalars] : K \in SUBSET WireKeys}}
      \cup {SerializeClock(c) : c \in Clocks}
      \cup {Object(WithKey(SerializeFatClockData(f).map, "extra", Bool(TRUE))) :
              f \in {g \in FatClocks : g.clock = StringClock("c:0:0")}}
      \cup {Array(<<ValueFromClockSpec(f.clock),
                    IF f.scm.some THEN SerializeScmAwareClockData(f.scm.val)
                                  ELSE Null>>) : f \in FatClocks}

StateEnterLeaveParamsInputs ==
    [name : {"hg.update"},
     metadata : {None, Some(Null), Some(Utf8String("rev"))},
     sync_timeout : SyncTimeouts]

\* the boolean toggles of QueryRequestCommon
QueryRequestToggles ==
    {"glob_noescape", "glob_includedotfiles", "empty_on_fresh_instance",
     "omit_changed_files", "fail_if_no_saved_state", "case_sensitive",
     "dedup_results", "always_include_directories"}

\* settings of the other fields of a QueryRequestCommon: all unset, all
\* set, and a mix
QueryRequestProfiles ==
    {QueryRequestCommonDefault,
     [QueryRequestCommonDefault EXCEPT
        !.glob = Some(<<"*.rs">>),
        !.path = Some(<<[tag |-> "RecursivePath", path |-> "src"],
                        [tag |-> "ConstrainedDepth", path |-> "lib",
                         depth |-> I64(1)]>>),
        !.suffix = Some(<<"rs">>),
        !.since = Some(ClockOfSpec(StringClock("c:0:0"))),
        !.relative_root = Some("sub"),
        !.expression = Some(Array(<<Utf8String("true")>>)),
        !.fields = <<"name", "size">>,
        !.sync_timeout = DisableCookie,
        !.settle_period = Some([secs |-> U64(1), nanos |-> 0]),
        !.settle_timeout = Some([secs |-> U64(2), nanos |-> 0]),
        !.lock_timeout = Some(I64(5)),
        !.request_id = Some("req")],
     [QueryRequestCommonDefault EXCEPT
        !.suffix = Some(<<>>),
        !.fields = <<"name">>,
        !.sync_timeout = Duration([secs |-> U64(1), nanos |-> 0]),
        !.request_id = Some("")]}

QueryRequests ==
    {[QueryRequestCommonDefault EXCEPT !.sync_timeout = t, !.fields = f,
                                       !.case_sensitive = b, !.settle_period = sp] :
        t \in SyncTimeouts, f \in {<<>>, <<"name", "size">>}, b \in BOOLEAN,
        sp \in {None, Some([secs |-> U64(1), nanos |-> 0])}}
    \cup {[k \in DOMAIN QueryRequestCommonDefault |->
              IF k \in QueryRequestToggles THEN on[k] ELSE q[k]] :
            on \in [QueryRequestToggles -> BOOLEAN], q \in QueryRequestProfiles}

FieldLists == {<<>>, <<"name">>, <<"name", "size">>}

SubscribeRequests ==
    [since : {None, Some(ClockOfSpec(StringClock("c:0:0")))},
     relative_root : OptionalStrings({"sub"}),
     expression : {None, Some(Array(<<Utf8String("true")>>))},
     fields : FieldLists,
     empty_on_fresh_instance : BOOLEAN,
     case_sensitive : BOOLEAN,
     defer_vcs : BOOLEAN,
     defer : {<<>>, <<"hg.update">>},
     drop : {<<>>, <<"hg.update">>}]

\* the sequences of at most n elements of S
SeqsUpTo(S, n) == UNION {[1 .. k -> S] : k \in 0 .. n}

TriggerStdinConfigs ==
    {DevNull, NamePerLine}
      \cup {FieldNames(names) : names \in SeqsUpTo({"name", "size"}, MaxSeqLen)}

\* max_files_stdin stays below 2^63
TriggerRequests ==
    [name : {"build"},
     command : {<<>>, <<"make", "all">>},
     append_files : BOOLEAN,
     expression : {None, Some(Array(<<Utf8String("true")>>))},
     stdin : {None} \cup {Some(c) : c \in TriggerStdinConfigs},
     stdout : OptionalStrings({">out.log"}),
     stderr : OptionalStrings({">>err.log"}),
     max_files_stdin : {None, Some(U64(10))},
     chdir : OptionalStrings({"sub"}),
     relative_root : OptionalStrings({"sub"})]

\* values put under a key in place of the expected one
Misshapen ==
    {Null, Bool(TRUE), Integer(I64(123)), Utf8String("c:0:0"), Array(<<>>),
     Array(<<Integer(I64(1))>>), Array(<<Utf8String("c:0:0"), Null>>),
     Object(EmptyMap)}

\* keys no response type knows
ExtraKeys == {"warning", "extra"}

\* the wire values handed to the decoder of a response type: the sample
\* maps, each also with one of its keys removed or holding another value,
\* each of these also with an unknown key, and values that are no struct
ResponseWireValues(samples, keys) ==
    LET maps == UNION {{m} \cup {WithoutKey(m, k) : k \in keys}
                           \cup {WithKey(m, k, v) : k \in keys, v \in Misshapen} :
                       m \in samples}
    IN  {Object(m) : m \in maps}
          \cup {Object(WithKey(m, k, v)) :
                  m \in maps, k \in ExtraKeys, v \in {Null, Utf8String("w")}}
          \cup {Null, Utf8String("x"), Array(<<>>)}

Version == Utf8String("2023.01.30.00")

GetVersionResponseSamples == {[version |-> Version]}

WatchListResponseSamples ==
    {[roots |-> Array(<<>>)], [roots |-> Array(<<Utf8String("/repo")>>)]}

GetSockNameResponseSamples ==
    {[version |-> Version, sockname |-> Utf8String("/tmp/sock")],
     [version |-> Version, error |-> Utf8String("no socket")]}

ClockResponseSamples ==
    {[version |-> Version, clock |-> Utf8String("c:0:0")],
     [version |-> Version, clock |-> Integer(I64(123))]}

GetConfigResponseSamples ==
    {[version |-> Version, config |-> Object(EmptyMap)],
     [version |-> Version,
      config |-> Object([ignore_dirs |-> Array(<<Utf8String("build")>>),
                         extra |-> Bool(TRUE)])]}

StateEnterLeaveResponseSamples == {[version |-> Version]}

WatchProjectResponseSamples ==
    {[version |-> Version, watch |-> Utf8String("/repo"),
      watcher |-> Utf8String("inotify")],
     [version |-> Version, watch |-> Utf8String("/repo"),
      watcher |-> Utf8String("eden"), relative_path |-> Utf8String("sub")]}

FatClockSample ==
    Object([clock |-> Utf8String("c:0:0"),
            scm |-> Object([mergebase |-> Utf8String("deadbeef")])])

QueryResultSamples ==
    {[version |-> Version, clock |-> Utf8String("c:0:0")],
     [version |-> Version, clock |-> FatClockSample,
      is_fresh_instance |-> Bool(TRUE),
      files |-> Array(<<Object([name |-> Utf8String("a.rs")]),
                        Object([name |-> Utf8String("b.rs"),
                                size |-> Integer(I64(1))])>>),
      metadata |-> Utf8String("rev"),
      debug |-> Object([cookie_files |-> Array(<<Utf8String(".cookie")>>)])]
       @@ ("state-enter" :> Utf8String("hg.update"))
       @@ ("state-leave" :> Utf8String("hg.update"))
       @@ ("saved-state-info" :> Object(EmptyMap))}

SubscribeResponseSamples ==
    {[version |-> Version, clock |-> Utf8String("c:0:0")],
     [version |-> Version, subscribe |-> Utf8String("sub1"),
      clock |-> Utf8String("c:0:0")],
     [version |-> Version, subscribe |-> Utf8String("sub1"),
      clock |-> FatClockSample]
       @@ ("asserted-states" :> Array(<<Utf8String("hg.update")>>))
       @@ ("saved-state-info" :> Object(EmptyMap))}

TriggerResponseSamples ==
    {[version |-> Version, disposition |-> Utf8String("created"),
      triggerid |-> Utf8String("build")]}

TriggerDelResponseSamples ==
    {[version |-> Version, deleted |-> Bool(TRUE),
      trigger |-> Utf8String("build")]}

\* what the wire may hold under the stdin key of a trigger
TriggerStdinWireValues ==
    {SerializeTriggerStdinConfig(Some(c)) : c \in TriggerStdinConfigs}
      \cup Misshapen

\* triggers that leave stdin unset
PlainTriggerRequests ==
    {t \in TriggerRequests : ~t.stdin.some /\ ~t.stderr.some /\ ~t.chdir.some}

\* the encodings of these triggers, each also with every stdin value, without a
\* name and with a command of another shape; values that are no struct
TriggerRequestWireValues ==
    LET plain == {SerializeTriggerRequest(t).map : t \in PlainTriggerRequests}
        maps == plain \cup {WithoutKey(m, "name") : m \in plain}
                      \cup {WithKey(m, "command", Utf8String("make")) : m \in plain}
    IN  {Object(m) : m \in maps}
          \cup {Object(WithKey(m, "stdin", v)) :
                  m \in maps, v \in TriggerStdinWireValues}
          \cup {Null, Utf8String("x"), Array(<<>>)}

\* elements of a trigger list
TriggerListElements ==
    {Object([name |-> Utf8String("build"),
             command |-> Array(<<Utf8String("make")>>)]),
     Object([name |-> Utf8String("lint"), command |-> Array(<<>>),
             append_files |-> Bool(TRUE),
             expression |-> Array(<<Utf8String("true")>>),
             stdin |-> Array(<<Utf8String("name"), Utf8String("size")>>)]),
     Object([name |-> Utf8String("test"),
             command |-> Array(<<Utf8String("cargo")>>),
             stdin |-> Utf8String("NAME_PER_LINE"),
             max_files_stdin |-> Integer(I64(10))]),
     Object([command |-> Array(<<Utf8String("make")>>),
             stdin |-> Utf8String("/dev/null")])}

TriggerListResponseSamples ==
    {[version |-> Version, triggers |-> Array(ts)] :
        ts \in SeqsUpTo(TriggerListElements, MaxSeqLen)}

UnsubscribeResponseSamples ==
    {[version |-> Version, unsubscribe |-> Utf8String("sub1")]}

GetAssertedStatesResponseSamples ==
    {[version |-> Version, root |-> Utf8String("/repo"), states |-> Array(<<>>)],
     [version |-> Version, root |-> Utf8String("/repo"),
      states |-> Array(<<Object([name |-> Utf8String("hg.update"),
                                 state |-> Utf8String("Asserted")])>>)]}

----------------------------------------------------------------------------
(* Actions                                                                 *)

Idle == op = "idle"

DecodeFileType ==
    /\ Idle
    /\ \E s \in FileTypeStrings :
           /\ op' = "DecodeFileType"
           /\ arg' = s
           /\ res' = FileTypeFromString(s)

EncodeFileType ==
    /\ Idle
    /\ \E k \in FileTypes :
           /\ op' = "EncodeFileType"
           /\ arg' = k
           /\ res' = StringFromFileType(k)

EncodeSettleDurationMs ==
    /\ Idle
    /\ \E d \in Durations :
           /\ op' = "EncodeSettleDurationMs"
           /\ arg' = d
           /\ res' = Integer(I64FromSettleDurationMs(d))

EncodeSyncTimeout ==
    /\ Idle
    /\ \E t \in SyncTimeouts :
           /\ op' = "EncodeSyncTimeout"
           /\ arg' = t
           /\ res' = Integer(I64FromSyncTimeout(t))

ConvertDuration ==
    /\ Idle
    /\ \E d \in Durations :
           /\ op' = "ConvertDuration"
           /\ arg' = d
           /\ res' = SyncTimeoutFromDuration(d)

EncodeClockRequestParams ==
    /\ Idle
    /\ \E t \in SyncTimeouts :
           /\ op' = "EncodeClockRequestParams"
           /\ arg' = [sync_timeout |-> t]
           /\ res' = SerializeClockRequestParams([sync_timeout |-> t])

EncodeStateEnterLeaveParams ==
    /\ Idle
    /\ \E p \in StateEnterLeaveParamsInputs :
           /\ op' = "EncodeStateEnterLeaveParams"
           /\ arg' = p
           /\ res' = SerializeStateEnterLeaveParams(p)

EncodeQueryRequestCommon ==
    /\ Idle
    /\ \E q \in QueryRequests :
           /\ op' = "EncodeQueryRequestCommon"
           /\ arg' = q
           /\ res' = SerializeQueryRequestCommon(q)

EncodeSubscribeRequest ==
    /\ Idle
    /\ \E r \in SubscribeRequests :
           /\ op' = "EncodeSubscribeRequest"
           /\ arg' = r
           /\ res' = SerializeSubscribeRequest(r)

EncodeTriggerRequest ==
    /\ Idle
    /\ \E t \in TriggerRequests :
           /\ op' = "EncodeTriggerRequest"
           /\ arg' = t
           /\ res' = SerializeTriggerRequest(t)

EncodeClock ==
    /\ Idle
    /\ \E c \in Clocks :
           /\ op' = "EncodeClock"
           /\ arg' = c
           /\ res' = SerializeClock(c)

EncodeClockSpec ==
    /\ Idle
    /\ \E c \in ClockSpecs :
           /\ op' = "EncodeClockSpec"
           /\ arg' = c
           /\ res' = ValueFromClockSpec(c)

DecodeClockSpec ==
    /\ Idle
    /\ \E v \in WireValues :
           /\ op' = "DecodeClockSpec"
           /\ arg' = v
           /\ res' = DeserializeClockSpec(v)

DecodeClock ==
    /\ Idle
    /\ \E v \in WireValues :
           /\ op' = "DecodeClock"
           /\ arg' = v
           /\ res' = DeserializeClock(v)

DecodeContentSha1Hex ==
    /\ Idle
    /\ \E v \in WireValues :
           /\ op' = "DecodeContentSha1Hex"
           /\ arg' = v
           /\ res' = DeserializeContentSha1Hex(v)

DecodeGetVersionResponse ==
    /\ Idle
    /\ \E v \in ResponseWireValues(GetVersionResponseSamples, KeysOf(GetVersionResponse)) :
           /\ op' = "DecodeGetVersionResponse"
           /\ arg' = v
           /\ res' = Deserialize(GetVersionResponse, v)

DecodeWatchListResponse ==
    /\ Idle
    /\ \E v \in ResponseWireValues(WatchListResponseSamples, KeysOf(WatchListResponse)) :
           /\ op' = "DecodeWatchListResponse"
           /\ arg' = v
           /\ res' = Deserialize(WatchListResponse, v)

DecodeGetSockNameResponse ==
    /\ Idle
    /\ \E v \in ResponseWireValues(GetSockNameResponseSamples, KeysOf(GetSockNameResponse)) :
           /\ op' = "DecodeGetSockNameResponse"
           /\ arg' = v
           /\ res' = Deserialize(GetSockNameResponse, v)

DecodeClockResponse ==
    /\ Idle
    /\ \E v \in ResponseWireValues(ClockResponseSamples, KeysOf(ClockResponse)) :
           /\ op' = "DecodeClockResponse"
           /\ arg' = v
           /\ res' = Deserialize(ClockResponse, v)

DecodeGetConfigResponse ==
    /\ Idle
    /\ \E v \in ResponseWireValues(GetConfigResponseSamples, KeysOf(GetConfigResponse)) :
           /\ op' = "DecodeGetConfigResponse"
           /\ arg' = v
           /\ res' = Deserialize(GetConfigResponse, v)

DecodeStateEnterLeaveResponse ==
    /\ Idle
    /\ \E v \in ResponseWireValues(StateEnterLeaveResponseSamples, KeysOf(StateEnterLeaveResponse)) :
           /\ op' = "DecodeStateEnterLeaveResponse"
           /\ arg' = v
           /\ res' = Deserialize(StateEnterLeaveResponse, v)

DecodeWatchProjectResponse ==
    /\ Idle
    /\ \E v \in ResponseWireValues(WatchProjectResponseSamples, KeysOf(WatchProjectResponse)) :
           /\ op' = "DecodeWatchProjectResponse"
           /\ arg' = v
           /\ res' = Deserialize(WatchProjectResponse, v)

DecodeQueryResult ==
    /\ Idle
    /\ \E v \in ResponseWireValues(QueryResultSamples, KeysOf(QueryResult(NameOnly))) :
           /\ op' = "DecodeQueryResult"
           /\ arg' = v
           /\ res' = Deserialize(QueryResult(NameOnly), v)

DecodeSubscribeResponse ==
    /\ Idle
    /\ \E v \in ResponseWireValues(SubscribeResponseSamples, KeysOf(SubscribeResponse)) :
           /\ op' = "DecodeSubscribeResponse"
           /\ arg' = v
           /\ res' = Deserialize(SubscribeResponse, v)

DecodeTriggerResponse ==
    /\ Idle
    /\ \E v \in ResponseWireValues(TriggerResponseSamples, KeysOf(TriggerResponse)) :
           /\ op' = "DecodeTriggerResponse"
           /\ arg' = v
           /\ res' = Deserialize(TriggerResponse, v)

DecodeTriggerDelResponse ==
    /\ Idle
    /\ \E v \in ResponseWireValues(TriggerDelResponseSamples, KeysOf(TriggerDelResponse)) :
           /\ op' = "DecodeTriggerDelResponse"
           /\ arg' = v
           /\ res' = Deserialize(TriggerDelResponse, v)

DecodeTriggerListResponse ==
    /\ Idle
    /\ \E v \in ResponseWireValues(TriggerListResponseSamples, KeysOf(TriggerListResponse)) :
           /\ op' = "DecodeTriggerListResponse"
           /\ arg' = v
           /\ res' = Deserialize(TriggerListResponse, v)

DecodeUnsubscribeResponse ==
    /\ Idle
    /\ \E v \in ResponseWireValues(UnsubscribeResponseSamples, KeysOf(UnsubscribeResponse)) :
           /\ op' = "DecodeUnsubscribeResponse"
           /\ arg' = v
           /\ res' = Deserialize(UnsubscribeResponse, v)

DecodeGetAssertedStatesResponse ==
    /\ Idle
    /\ \E v \in ResponseWireValues(GetAssertedStatesResponseSamples, KeysOf(GetAssertedStatesResponse)) :
           /\ op' = "DecodeGetAssertedStatesResponse"
           /\ arg' = v
           /\ res' = Deserialize(GetAssertedStatesResponse, v)

DecodeTriggerRequest ==
    /\ Idle
    /\ \E v \in TriggerRequestWireValues :
           /\ op' = "DecodeTriggerRequest"
           /\ arg' = v
           /\ res' = Deserialize(TriggerRequest, v)

\* the exchange is over: the values are dropped, none persists
Return ==
    /\ ~Idle
    /\ op' = "idle"
    /\ arg' = Null
    /\ res' = Null

\* the type each decode operation decodes
ResponseTypes ==
    [DecodeGetVersionResponse |-> GetVersionResponse,
     DecodeWatchListResponse |-> WatchListResponse,
     DecodeGetSockNameResponse |-> GetSockNameResponse,
     DecodeClockResponse |-> ClockResponse,
     DecodeGetConfigResponse |-> GetConfigResponse,
     DecodeStateEnterLeaveResponse |-> StateEnterLeaveResponse,
     DecodeWatchProjectResponse |-> WatchProjectResponse,
     DecodeQueryResult |-> QueryResult(NameOnly),
     DecodeSubscribeResponse |-> SubscribeResponse,
     DecodeTriggerResponse |-> TriggerResponse,
     DecodeTriggerDelResponse |-> TriggerDelResponse,
     DecodeTriggerListResponse |-> TriggerListResponse,
     DecodeUnsubscribeResponse |-> UnsubscribeResponse,
     DecodeGetAssertedStatesResponse |-> GetAssertedStatesResponse,
     DecodeTriggerRequest |-> TriggerRequest]

Init ==
    /\ op = "idle"
    /\ arg = Null
    /\ res = Null

Next ==
    \/ DecodeFileType
    \/ EncodeFileType
    \/ EncodeSettleDurationMs
    \/ EncodeSyncTimeout
    \/ ConvertDuration
    \/ EncodeClockRequestParams
    \/ EncodeStateEnterLeaveParams
    \/ EncodeQueryRequestCommon
    \/ EncodeSubscribeRequest
    \/ EncodeTriggerRequest
    \/ EncodeClock
    \/ EncodeClockSpec
    \/ DecodeClockSpec
    \/ DecodeClock
    \/ DecodeContentSha1Hex
    \/ DecodeGetVersionResponse
    \/ DecodeWatchListResponse
    \/ DecodeGetSockNameResponse
    \/ DecodeClockResponse
    \/ DecodeGetConfigResponse
    \/ DecodeStateEnterLeaveResponse
    \/ DecodeWatchProjectResponse
    \/ DecodeQueryResult
    \/ DecodeSubscribeResponse
    \/ DecodeTriggerResponse
    \/ DecodeTriggerDelResponse
    \/ DecodeTriggerListResponse
    \/ DecodeUnsubscribeResponse
    \/ DecodeGetAssertedStatesResponse
    \/ DecodeTriggerRequest
    \/ Return

Spec == Init /\ [][Next]_vars

----------------------------------------------------------------------------
(* Properties                                                              *)

\* the sync_timeout key of an encoded parameter map, when present, holds
\* the millisecond count of the duration d
EmitsMillis(map, d) ==
    /\ "sync_timeout" \in DOMAIN map
    /\ map["sync_timeout"].kind = "int"
    /\ I64EqualsU128(map["sync_timeout"].int, as_millis(d))

\* C1: decoding a FileType from a string that is not one of the nine known
\* codes yields a decode failure returned to the caller, never a crash.
C1_UnknownCodeIsDecodeFailure ==
    (op = "DecodeFileType" /\ arg \notin KnownFileTypeCodes) => res = Err

\* C2: for each of the nine kinds, encoding it and decoding the code yields
\* the original kind; the codes are pairwise distinct and one character long.
C2_FileTypeRoundTrip ==
    op = "EncodeFileType" =>
        /\ FileTypeFromString(res) = Ok(arg)
        /\ Len(res) = 1
        /\ \A k \in FileTypes \ {arg} : StringFromFileType(k) # res

C2_Witness ==
    op = "EncodeFileType" /\ arg = "SolarisDoor" /\ res = "D"

\* C3: in the encoding of ClockRequestParams the sync_timeout key is omitted
\* exactly when the variant is DisableCookie; Default is emitted as 60000; a
\* Duration is emitted as its millisecond count.
C3_ClockRequestParamsSyncTimeout ==
    op = "EncodeClockRequestParams" =>
        /\ ("sync_timeout" \notin DOMAIN res.map) <=> (arg.sync_timeout = DisableCookie)
        /\ arg.sync_timeout = Default =>
               res.map["sync_timeout"] = Integer(I64(60000))
        /\ arg.sync_timeout.tag = "Duration" =>
               EmitsMillis(res.map, arg.sync_timeout.d)

C5_QueryRequestSyncTimeout ==
    op = "EncodeQueryRequestCommon" =>
        /\ ("sync_timeout" \notin DOMAIN res.map) <=> (arg.sync_timeout = Default)
        /\ arg.sync_timeout = DisableCookie =>
               res.map["sync_timeout"] = Integer(I64(0))
        /\ arg.sync_timeout.tag = "Duration" =>
               EmitsMillis(res.map, arg.sync_timeout.d)

\* C6: a string decodes to Hash with that string, an object with an "error"
\* string to Error with that message, null to None; every other shape
\* (integer, boolean, array, object without "error", object whose "error" is
\* no string) is a decode failure.
C6_ContentSha1HexShapes ==
    op = "DecodeContentSha1Hex" =>
        res = CASE arg.kind = "string" -> Ok(Hash(arg.str))
                [] arg.kind = "object" /\ "error" \in DOMAIN arg.map
                     /\ arg.map["error"].kind = "string" ->
                       Ok(Error(arg.map["error"].str))
                [] arg.kind = "null" -> Ok(ContentNone)
                [] OTHER -> Err

C6_Witness ==
    /\ op = "DecodeContentSha1Hex"
    /\ arg.kind = "object"
    /\ DOMAIN arg.map = {"error", "extra"}
    /\ res = Ok(Error("c:0:0"))

\* C7: decoding a Clock from a bare string or a bare integer always yields
\* Clock::Spec (StringClock for a string, UnixTimestamp for an integer) and
\* never Clock::ScmAware, whatever the string holds.
C7_BareClockIsSpec ==
    (op = "DecodeClock" /\ arg.kind \in {"string", "int"}) =>
        res = Ok(ClockOfSpec(IF arg.kind = "string" THEN StringClock(arg.str)
                                                    ELSE UnixTimestamp(arg.int)))

C7_Witness ==
    /\ op = "DecodeClock"
    /\ arg = Utf8String("{\"clock\":\"c:0:0\"}")
    /\ res = Ok(ClockOfSpec(StringClock("{\"clock\":\"c:0:0\"}")))

\* C8: a map decodes to Clock::ScmAware only if it has a "clock" key holding
\* a string or an integer; a map never decodes to Clock::Spec; a map without
\* a "clock" key and any value that is neither string, integer nor map
\* (null, boolean, array) is a decode failure.
C8_ClockMapShape ==
    op = "DecodeClock" =>
        /\ (arg.kind = "object" /\ IsOk(res)) =>
               /\ res.val.tag = "ScmAware"
               /\ "clock" \in DOMAIN arg.map
               /\ arg.map["clock"].kind \in {"string", "int"}
        /\ (arg.kind = "object" /\ "clock" \notin DOMAIN arg.map) => res = Err
        /\ arg.kind \notin {"string", "int", "object"} => res = Err

\* C9: for every ClockSpec, encode then decode returns the same value in the
\* same variant: a StringClock encodes as a string (also when all digits), a
\* UnixTimestamp as an integer.
C9_ClockSpecRoundTrip ==
    op = "EncodeClockSpec" =>
        /\ DeserializeClockSpec(res) = Ok(arg)
        /\ arg.tag = "StringClock" => res = Utf8String(arg.st)
        /\ arg.tag = "UnixTimestamp" => res = Integer(arg.ts)

C9_Witness ==
    op = "EncodeClockSpec" /\ arg = StringClock("123") /\ res = Utf8String("123")

\* C10: SyncTimeout::Duration(d) and SettleDurationMs(d) encode as a signed
\* 64-bit integer equal to d's whole millisecond count for every duration d,
\* never negative.
C10_DurationEncodesMillis ==
    /\ (op = "EncodeSyncTimeout" /\ arg.tag = "Duration") =>
           (res.kind = "int" /\ I64EqualsU128(res.int, as_millis(arg.d)))
    /\ op = "EncodeSettleDurationMs" =>
           (res.kind = "int" /\ I64EqualsU128(res.int, as_millis(arg)))

\* C11: in the encoding of a QueryRequestCommon the key of each boolean
\* toggle is present exactly when the toggle is true (and then holds true),
\* whatever the other fields are.
C11_ToggleKeyIffTrue ==
    op = "EncodeQueryRequestCommon" =>
        \A k \in QueryRequestToggles :
            /\ k \in DOMAIN res.map <=> arg[k]
            /\ k \in DOMAIN res.map => res.map[k] = Bool(TRUE)

\* a request with some toggles on and others off, among other fields set
C11_Witness ==
    /\ op = "EncodeQueryRequestCommon"
    /\ arg.dedup_results /\ ~arg.glob_noescape /\ arg.glob.some
    /\ "dedup_results" \in DOMAIN res.map
    /\ "glob_noescape" \notin DOMAIN res.map

\* C12: the fields key is present in the encoding of every QueryRequestCommon
\* and of every SubscribeRequest, an empty list included (it then holds the
\* empty array); a default-constructed QueryRequestCommon encodes to a map
\* whose only key is fields.
C12_FieldsAlwaysPresent ==
    /\ op \in {"EncodeQueryRequestCommon", "EncodeSubscribeRequest"} =>
           /\ "fields" \in DOMAIN res.map
           /\ res.map["fields"] = SerializeStrings(arg.fields)
    /\ (op = "EncodeQueryRequestCommon" /\ arg = QueryRequestCommonDefault) =>
           res = Object([k \in {"fields"} |-> Array(<<>>)])

\* a subscription without field names is encoded
C12_Witness ==
    /\ op = "EncodeSubscribeRequest"
    /\ arg.fields = <<>> /\ arg.drop = <<>> /\ arg.defer # <<>>
    /\ res.map["fields"] = Array(<<>>)
    /\ "drop" \notin DOMAIN res.map

\* C13: in the encoding of a TriggerRequest, stdin DevNull is the string
\* "/dev/null", NamePerLine the string "NAME_PER_LINE" and FieldNames(list)
\* the sequence of those names in order; when stdin is unset the key is
\* omitted, no null is emitted.
C13_TriggerStdinEncoding ==
    op = "EncodeTriggerRequest" =>
        /\ "stdin" \in DOMAIN res.map <=> arg.stdin.some
        /\ arg.stdin.some =>
               LET c == arg.stdin.val
                   v == res.map["stdin"]
               IN  /\ c = DevNull => v = Utf8String("/dev/null")
                   /\ c = NamePerLine => v = Utf8String("NAME_PER_LINE")
                   /\ c.tag = "FieldNames" =>
                          /\ v.kind = "array"
                          /\ Len(v.items) = Len(c.names)
                          /\ \A i \in 1 .. Len(c.names) :
                                 v.items[i] = Utf8String(c.names[i])

\* a trigger fed two field names, in an order the encoding has to keep
C13_Witness ==
    /\ op = "EncodeTriggerRequest"
    /\ arg.stdin = Some(FieldNames(<<"size", "name">>))
    /\ res.map["stdin"] = Array(<<Utf8String("size"), Utf8String("name")>>)

\* a wire value without the stdin key, when it is a map
StripStdin(v) ==
    IF v.kind = "object" THEN Object(WithoutKey(v.map, "stdin")) ELSE v

\* C14: decoding a TriggerRequest, alone or as an element of a trigger-list
\* response, succeeds whatever the wire holds under stdin (a string, a
\* sequence, anything, nothing); the decoded stdin is always absent and
\* the other decoded fields are those decoded had the stdin key not been
\* on the wire.
C14_TriggerStdinIgnored ==
    /\ (op = "DecodeTriggerRequest" /\ arg.kind = "object") =>
           /\ res = Deserialize(TriggerRequest, StripStdin(arg))
           /\ IsOk(res) => res.val.stdin = None
           /\ \A t \in PlainTriggerRequests :
                  StripStdin(arg) = SerializeTriggerRequest(t)
                      => res = Ok([t EXCEPT !.expression = None])
    /\ (/\ op = "DecodeTriggerListResponse"
        /\ arg.kind = "object"
        /\ "triggers" \in DOMAIN arg.map
        /\ arg.map["triggers"].kind = "array") =>
           LET ts == arg.map["triggers"].items
               bare == Array([i \in 1 .. Len(ts) |-> StripStdin(ts[i])])
           IN  /\ res = Deserialize(TriggerListResponse,
                                    Object(WithKey(arg.map, "triggers", bare)))
               /\ IsOk(res) => \A i \in 1 .. Len(ts) :
                                   res.val.triggers[i].stdin = None

\* a trigger whose stdin is a sequence on the wire has been decoded
C14_Witness ==
    /\ op = "DecodeTriggerRequest"
    /\ arg.kind = "object"
    /\ "stdin" \in DOMAIN arg.map
    /\ arg.map["stdin"] = Array(<<Utf8String("name"), Utf8String("size")>>)
    /\ IsOk(res)
    /\ res.val.stdin = None
    /\ res.val.command = <<"make", "all">>

\* a map without the keys outside K
Restrict(m, K) == [k \in DOMAIN m \cap K |-> m[k]]

\* C15: decoding a response map ignores the keys the type does not know:
\* for every response type the result (a value or a failure) is the one
\* of the map restricted to the known keys, so two maps that agree on those
\* and differ only in extra keys decode alike; the same holds for the map
\* shapes of Clock (ScmAware) and of ContentSha1Hex (Error).
C15_UnknownKeysIgnored ==
    /\ (op \in DOMAIN ResponseTypes /\ arg.kind = "object") =>
           res = Deserialize(ResponseTypes[op],
                             Object(Restrict(arg.map, KeysOf(ResponseTypes[op]))))
    /\ (op = "DecodeClock" /\ arg.kind = "object") =>
           res = DeserializeClock(Object(Restrict(arg.map, {"clock", "scm"})))
    /\ (op = "DecodeContentSha1Hex" /\ arg.kind = "object") =>
           res = DeserializeContentSha1Hex(Object(Restrict(arg.map, {"error"})))

\* a query response carrying a key the type does not know has been decoded
C15_Witness ==
    /\ op = "DecodeQueryResult"
    /\ arg.kind = "object"
    /\ "warning" \in DOMAIN arg.map
    /\ "files" \in DOMAIN arg.map
    /\ IsOk(res)
    /\ res.val.files.some

\* the keys of a query response that hold an Option
QueryResultOptionKeys ==
    {"files", "state-enter", "state-leave", "metadata", "saved-state-info",
     "debug"}

\* C16: decoding a query response never substitutes a default for
\* malformed input: a map lacking version or clock, or carrying
\* is_fresh_instance, files or clock with a value of the wrong shape, is a
\* decode failure; a default is produced only for an absent key (absent
\* is_fresh_instance decodes as false, an absent optional key as none; null
\* is the wire form of none).  The shapes of a clock are the string, the
\* integer and the map.
C16_QueryResultNoDefaultForMalformed ==
    (op = "DecodeQueryResult" /\ arg.kind = "object") =>
        LET m == arg.map
            has(k) == k \in DOMAIN m
            T == QueryResult(NameOnly)
            name(k) == LET i == CHOOSE j \in 1 .. Len(T.fields) :
                                    T.fields[j].key = k
                       IN  T.fields[i].name
        IN  /\ (~has("version") \/ ~has("clock")) => res = Err
            /\ (has("version") /\ m["version"].kind # "string") => res = Err
            /\ (has("is_fresh_instance") /\ m["is_fresh_instance"].kind # "bool")
                   => res = Err
            /\ (has("files") /\ m["files"].kind \notin {"array", "null"})
                   => res = Err
            /\ (has("files") /\ m["files"].kind = "array"
                   /\ \E i \in 1 .. Len(m["files"].items) :
                          m["files"].items[i].kind \notin {"object", "array"})
                   => res = Err
            /\ (has("clock") /\ m["clock"].kind \notin {"string", "int", "object"})
                   => res = Err
            /\ (has("clock") /\ m["clock"].kind = "object"
                   /\ "clock" \notin DOMAIN m["clock"].map)
                   => res = Err
            /\ IsOk(res) =>
                   /\ res.val.is_fresh_instance =
                          IF has("is_fresh_instance")
                          THEN m["is_fresh_instance"].bool ELSE FALSE
                   /\ \A k \in QueryResultOptionKeys :
                          res.val[name(k)] = None
                              <=> (~has(k) \/ m[k].kind = "null")

\* a clock as the wire holds it: a string, an integer, or a map the clock
\* decoder accepts
ValidClock(v) ==
    \/ v.kind \in {"string", "int"}
    \/ v.kind = "object" /\ IsOk(DeserializeClock(v))

\* a wire map with a version string, a valid clock, and asserted-states
\* either absent or a sequence of strings
SubscribeResponseAsSpecified(m) ==
    /\ "version" \in DOMAIN m /\ m["version"].kind = "string"
    /\ "clock" \in DOMAIN m /\ ValidClock(m["clock"])
    /\ "asserted-states" \in DOMAIN m =>
           /\ m["asserted-states"].kind = "array"
           /\ \A i \in 1 .. Len(m["asserted-states"].items) :
                  m["asserted-states"].items[i].kind = "string"

\* the decoded asserted-states and saved-state-info: absent asserted-states
\* is the empty list, absent saved-state-info is none
SubscribeResponseDefaults(m, r) ==
    /\ "asserted-states" \notin DOMAIN m => r.asserted_states = <<>>
    /\ "saved-state-info" \notin DOMAIN m => r.saved_state_info = None

\* C17 as stated: decoding a subscribe response succeeds for every map that
\* carries a version string and a valid clock, asserted-states and
\* saved-state-info being optional (absent: empty list, none); no further
\* key is required.
C17_SubscribeResponseVersionAndClock ==
    (/\ op = "DecodeSubscribeResponse"
     /\ arg.kind = "object"
     /\ SubscribeResponseAsSpecified(arg.map)) =>
        /\ IsOk(res)
        /\ SubscribeResponseDefaults(arg.map, res.val)

\* C17, amended: decoding a subscribe response succeeds for every map that
\* carries a version string, a subscribe string and a valid clock,
\* asserted-states and saved-state-info being optional (absent: empty list,
\* none); no further key is required, and a map without the subscribe
\* string is a decode failure.
C17_SubscribeResponseNeedsSubscribe ==
    (/\ op = "DecodeSubscribeResponse"
     /\ arg.kind = "object"
     /\ SubscribeResponseAsSpecified(arg.map)) =>
        IF "subscribe" \in DOMAIN arg.map /\ arg.map["subscribe"].kind = "string"
        THEN /\ IsOk(res)
             /\ SubscribeResponseDefaults(arg.map, res.val)
        ELSE res = Err

\* a response holding exactly version, subscribe and clock has been decoded
C17_Witness ==
    /\ op = "DecodeSubscribeResponse"
    /\ arg.kind = "object"
    /\ DOMAIN arg.map = {"version", "subscribe", "clock"}
    /\ IsOk(res)
    /\ res.val.asserted_states = <<>>
    /\ res.val.saved_state_info = None

\* C18: converting a Duration into a SyncTimeout never yields Default; it
\* yields DisableCookie exactly when the duration's whole millisecond count
\* is 0 and Duration(d) otherwise; hence a converted SyncTimeout encodes as
\* 0 if and only if it is DisableCookie, while a directly constructed
\* Duration(d) with d below one millisecond also encodes as 0 yet is not
\* omitted from the ClockRequestParams encoding.
C18_ConvertedSyncTimeout ==
    /\ op = "ConvertDuration" =>
           /\ res # Default
           /\ res = DisableCookie <=> as_millis(arg) = Zeros(8)
           /\ res # DisableCookie => res = Duration(arg)
           /\ I64FromSyncTimeout(res) = I64(0) <=> res = DisableCookie
    /\ (/\ op = "EncodeClockRequestParams"
        /\ arg.sync_timeout.tag = "Duration"
        /\ as_millis(arg.sync_timeout.d) = Zeros(8)) =>
           /\ "sync_timeout" \in DOMAIN res.map
           /\ res.map["sync_timeout"] = Integer(I64(0))

\* C19: for every Clock, encode then decode returns an equal Clock in the
\* same variant, for every combination of present and absent optional
\* members, a saved-state config that is present but holds null included.
C19_ClockRoundTrip ==
    op = "EncodeClock" => DeserializeClock(res) = Ok(arg)

=============================================================================
